---- MODULE Spec2Model ----
(***************************************************************************)
(* JobHunter AI: the job application workflow graph                        *)
(* (orchestration/workflow.py), the agents it sequences (agents/*.py) and  *)
(* the scoring functions of the ATS scorer and the ghost job detector.     *)
(***************************************************************************)
EXTENDS Integers, Sequences, FiniteSets, TLC

VARIABLES
    \* ---- JobApplicationWorkflow.run ----
    phase,            \* "idle" | "running" | "done" (run returned) | "raised" (run raised)
    resume_path,      \* input of run
    job_posting,      \* input of run
    aliased,          \* whether the graph runtime hands a node the errors list object itself
    resume_data, company_data, match_result, ats_score, optimized_resume, email,
    should_apply, errors, status,      \* the keys of JobApplicationState
    pending,          \* nodes triggered by an edge and not yet started
    active,           \* nodes started and not yet returned
    returned,         \* nodes that returned a state
    order,            \* the nodes in the order they started
    outcome,          \* per node: "none" | "returned" | "raised" (its agent call)
    llmCalls,         \* per node: number of invoke_llm calls made
    \* ---- ATSScorer.run (agents/ats_scorer.py) ----
    ats_pc,           \* "off" | "call" | "done"
    ats_in,           \* the input_data of the call
    ats_llm,          \* the LLM response of the call
    ats_out,          \* what the call returned or that it raised
    \* ---- GhostJobDetector.run (agents/ghost_job_detector.py) ----
    ghost_pc,         \* "off" | "call" | "done"
    ghost_in,         \* the job posting of the call
    ghost_llm,        \* the LLM response of the call
    ghost_out,        \* what the call returned or that it raised
    \* ---- JobMatcher.batch_match (agents/job_matcher.py) ----
    bm_pc,            \* "off" | "loop" | "done"
    bm_resume,        \* resume_data
    bm_jobs,          \* job_postings
    bm_min,           \* min_score
    bm_log,           \* per job handled so far, what self.run did
    matches,          \* the list built by the loop, and returned
    \* ---- GhostJobDetector.batch_detect ----
    bd_pc,            \* "off" | "loop" | "done" (returned) | "raised"
    bd_jobs,          \* jobs
    bd_log,           \* per job handled so far, what self.run did
    bd_results,       \* results
    \* ---- mcp_server ATSScorer.calculate_ats_score ----
    mcp_pc,           \* "off" | "ready" | "done"
    mcp_in,           \* resume_data and job_requirements
    mcp_out,          \* the dictionary returned, with the four unrounded components
    \* ---- mcp_server DatabaseManager and the application's lifespan ----
    db_pc,            \* "off" | the store connect_all is about to try | "returned" | "serving" | "closed"
    db_env,           \* what each connect_* will do in this environment
    db_attempts,      \* the connect_* calls made so far, in order
    db_handles,       \* postgres_engine, qdrant_client, neo4j_driver, redis_client
    success_count,
    db_ret,           \* what connect_all returned: "none" | "True" | "False"
    \* ---- mcp_server resume endpoints ----
    api_on,           \* the application serves requests
    resumes,          \* table resumes: resume_id -> content, NoRow where there is no row
    redis_client,     \* db_manager.redis_client is set
    redis_cache,      \* keys resume:<id> of Redis
    resumes_before,   \* table resumes when the last request came in
    api_req,          \* the last request
    api_resp,         \* the response to it
    \* ---- mcp_server POST /jobs/scrape ----
    scrape_pc,        \* "off" | "start" | "loop" | "done"
    scrape_jobs,      \* jobs, as scraped and enriched
    scrape_ids,       \* per job handled so far, the 'id' put in the job if any
    stored_count,
    session_jobs,     \* rows of job_postings inserted in the open transaction
    session_companies,\* rows of companies inserted in the open transaction
    job_postings,     \* committed rows of job_postings (their job_id)
    companies,        \* committed rows of companies (their company_id)
    scrape_resp,      \* the response
    \* ---- mcp_server NewsService ----
    news_on,          \* the service is constructed
    clock,            \* time.time(), in seconds
    cache,            \* self.cache
    last_fetch,       \* self.last_fetch
    news_call         \* the call of fetch_news just made, if the last step was one

inputVars == <<resume_path, job_posting, aliased>>
stateVars == <<resume_data, company_data, match_result, ats_score, optimized_resume,
               email, should_apply, errors, status>>
schedVars == <<phase, pending, active, returned, order, outcome, llmCalls>>
wfVars    == <<inputVars, stateVars, schedVars>>
atsVars   == <<ats_pc, ats_in, ats_llm, ats_out>>
ghostVars == <<ghost_pc, ghost_in, ghost_llm, ghost_out>>
bmVars    == <<bm_pc, bm_resume, bm_jobs, bm_min, bm_log, matches>>
firstVars == <<wfVars, atsVars, ghostVars, bmVars>>
bdVars    == <<bd_pc, bd_jobs, bd_log, bd_results>>
mcpVars   == <<mcp_pc, mcp_in, mcp_out>>
dbVars    == <<db_pc, db_env, db_attempts, db_handles, success_count, db_ret>>
resumeVars == <<api_on, resumes, redis_client, redis_cache, resumes_before, api_req, api_resp>>
scrapeVars == <<scrape_pc, scrape_jobs, scrape_ids, stored_count, session_jobs,
                session_companies, job_postings, companies, scrape_resp>>
newsVars  == <<news_on, clock, cache, last_fetch, news_call>>
moreVars  == <<bdVars, mcpVars, dbVars, resumeVars, scrapeVars, newsVars>>
otherThanBd  == <<mcpVars, dbVars, resumeVars, scrapeVars, newsVars>>
otherThanMcp == <<bdVars, dbVars, resumeVars, scrapeVars, newsVars>>
otherThanDb  == <<bdVars, mcpVars, resumeVars, scrapeVars, newsVars>>
otherThanResume == <<bdVars, mcpVars, dbVars, scrapeVars, newsVars>>
otherThanScrape == <<bdVars, mcpVars, dbVars, resumeVars, newsVars>>
otherThanNews == <<bdVars, mcpVars, dbVars, resumeVars, scrapeVars>>
vars      == <<firstVars, moreVars>>

(***************************************************************************)
(* The graph of _build_graph                                               *)
(***************************************************************************)
END == "__end__"

Nodes == {"parse_resume", "research_company", "match_job",
          "score_ats", "optimize_resume", "write_email"}

EntryPoint == "parse_resume"

\* a plausible slip: match_job wired directly after parse_resume as well
EdgesFanOut ==
    { <<"parse_resume", "research_company">>, <<"parse_resume", "match_job">>,
      <<"research_company", "match_job">>,
      <<"score_ats", "optimize_resume">>, <<"optimize_resume", "write_email">>,
      <<"write_email", END>> }

Edges ==
    { <<"parse_resume", "research_company">>,
      <<"research_company", "match_job">>,
      <<"score_ats", "optimize_resume">>,
      <<"optimize_resume", "write_email">>,
      <<"write_email", END>> }

ConditionalEdges == ("continue" :> "score_ats") @@ ("skip" :> END)

should_continue_after_match(sa) == IF sa THEN "continue" ELSE "skip"

\* a plausible slip: a node whose agent failed is executed again
SuccessorsRetry(n, sa, failed) ==
    IF failed THEN {n}
    ELSE IF n = "match_job"
         THEN {ConditionalEdges[should_continue_after_match(sa)]}
         ELSE {e[2] : e \in {d \in Edges : d[1] = n}}

\* the targets of the outgoing edges of node n once it returned; sa is the
\* should_apply the node left in the state, failed whether its agent raised
Successors(n, sa, failed) ==
    IF n = "match_job"
    THEN {ConditionalEdges[should_continue_after_match(sa)]}
    ELSE {e[2] : e \in {d \in Edges : d[1] = n}}

(***************************************************************************)
(* Inputs and LLM responses                                                *)
(***************************************************************************)
Field == {"missing", "blank", "set"}

\* a job posting dict: its company and description keys, and whether it
\* holds any other key (title, url, ...)
JobPostings == [company : Field, description : Field, other : BOOLEAN]

Truthy(jp) == jp.company # "missing" \/ jp.description # "missing" \/ jp.other

\* "": empty path; "missing": no such file or unsupported suffix; "ok"
ResumePaths == {"", "missing", "ok"}

Recommendations == {"Apply", "Maybe", "Skip", "Other"}

Missing == "absent"

MaxMatchScore == 100
MatchScoreStep == 50
MatchScores == {s \in 0..MaxMatchScore : s % MatchScoreStep = 0}

\* What the LLM can answer. kind: "raise" (the provider call raised), "text"
\* (not JSON), "junk" (JSON, not an object), "json" (a JSON object). For a
\* JSON object, shape says how it fits what the agent reads from it
\* ("ok", "bad": a field of the wrong type or absent, "empty": {} or an
\* empty value), rec and score are its recommendation and match_score fields.
LLMResponses ==
    [kind : {"raise", "text", "junk"}, shape : {"ok"}, rec : {Missing}, score : {0}]
    \cup
    [kind : {"json"}, shape : {"ok", "bad", "empty"},
     rec : Recommendations \cup {Missing}, score : MatchScores]

Ctors == {"ok", "raise"}

\* the match_score of the matcher's fallback for an answer that is not JSON
FallbackMatchScore == 60

(***************************************************************************)
(* The agents. Each run operator gives                                     *)
(*   at:     "none" (returned) | "construct" | "run" (where it raised)     *)
(*   calls:  the number of invoke_llm calls made                           *)
(*   result: the value returned (when at = "none")                         *)
(***************************************************************************)
Raised(where, n) == [at |-> where, calls |-> n, result |-> Missing]
Returned(n, v)   == [at |-> "none", calls |-> n, result |-> v]

\* a plausible slip: one retry after a failed provider call
invoke_llm_retry(resp) ==
    [calls |-> IF resp.kind = "raise" THEN 2 ELSE 1, raised |-> resp.kind = "raise"]

\* BaseAgent.invoke_llm: one provider call; a failure is logged and re-raised
invoke_llm(resp) == [calls |-> 1, raised |-> resp.kind = "raise"]

ResumeParser_run(path, resp) ==
    IF path # "ok" THEN Raised("run", 0)       \* ValueError / FileNotFoundError
    ELSE LET l == invoke_llm(resp) IN
         IF l.raised THEN Raised("run", l.calls)
         ELSE IF resp.kind = "junk" THEN Raised("run", l.calls)  \* parsed_data["raw_text"] = ...
         ELSE IF resp.kind = "text" THEN Returned(l.calls, "raw_only")
         ELSE Returned(l.calls, "parsed")

CompanyResearcher_run(company, resp) ==
    IF company # "set" THEN Raised("run", 0)   \* "company_name is required"
    ELSE LET l == invoke_llm(resp) IN
         IF l.raised THEN Raised("run", l.calls)
         ELSE IF resp.kind = "junk" THEN Raised("run", l.calls)  \* company_data.get
         ELSE IF resp.kind = "text" THEN Returned(l.calls, "ok")
         ELSE Returned(l.calls, CASE resp.shape = "ok"    -> "ok"
                                  [] resp.shape = "bad"   -> "bad_stack"
                                  [] resp.shape = "empty" -> "empty")

JobMatcher_run(resume, jp, company, resp) ==
    IF resume = "empty" \/ ~Truthy(jp) THEN Raised("run", 0)
    ELSE IF company = "bad_stack" THEN Raised("run", 0)   \* tech_stack.get in the prompt
    ELSE LET l == invoke_llm(resp) IN
         IF l.raised THEN Raised("run", l.calls)
         ELSE IF resp.kind = "text"
              THEN Returned(l.calls, [recommendation |-> "Maybe",
                                      match_score |-> FallbackMatchScore])
         ELSE IF \/ resp.kind = "junk" \/ resp.shape # "ok"
                 \/ resp.rec = Missing
              THEN Raised("run", l.calls)      \* match_result['match_score'] in run
         ELSE Returned(l.calls, [recommendation |-> resp.rec, match_score |-> resp.score])

\* the control flow of ATSScorer.run (its score is ATSScorer_score below)
ATSScorer_flow(resume, description, resp) ==
    IF resume = "empty" \/ description # "set" THEN Raised("run", 0)
    ELSE LET l == invoke_llm(resp) IN
         IF l.raised THEN Raised("run", l.calls)
         ELSE IF resp.kind = "junk" THEN Raised("run", l.calls)  \* llm_analysis.get
         ELSE Returned(l.calls, "scored")

ResumeOptimizer_run(resume, description, company, resp) ==
    IF resume = "empty" \/ description # "set" THEN Raised("run", 0)
    ELSE IF company = "bad_stack" THEN Raised("run", 0)
    ELSE LET l == invoke_llm(resp) IN
         IF l.raised THEN Raised("run", l.calls)
         ELSE IF resp.kind = "text" THEN Returned(l.calls, "has_resume")
         ELSE IF resp.kind = "junk" \/ resp.shape = "bad" THEN Raised("run", l.calls)
         ELSE Returned(l.calls, IF resp.shape = "empty" THEN "blank_resume" ELSE "has_resume")

EmailWriter_run(jp, resume, company, resp) ==
    IF ~Truthy(jp) \/ resume \in {"empty", "blank_resume"} THEN Raised("run", 0)
    ELSE IF company = "bad_stack" THEN Raised("run", 0)
    ELSE LET l == invoke_llm(resp) IN
         IF l.raised THEN Raised("run", l.calls)
         ELSE Returned(l.calls, "written")

\* the node's "try:" block: the agent's constructor and its run call
Construct(ctor, r) == IF ctor = "raise" THEN Raised("construct", 0) ELSE r

\* a plausible slip: the constructor called before the try block
TryBlockRunOnly(n) == {"run"}

\* the steps of node n that its try/except Exception covers
TryBlock(n) == {"construct", "run"}

ErrorMessage ==
    [n \in Nodes |->
        CASE n = "parse_resume"     -> "Resume parsing failed"
          [] n = "research_company" -> "Company research failed"
          [] n = "match_job"        -> "Job matching failed"
          [] n = "score_ats"        -> "ATS scoring failed"
          [] n = "optimize_resume"  -> "Resume optimization failed"
          [] n = "write_email"      -> "Email generation failed"]

\* errors: Annotated[Sequence[str], operator.add]. The node appends to
\* state["errors"] in place and returns the whole state; the runtime then
\* stores operator.add(channel value, returned value). Whether the list the
\* node mutated is the channel's own object depends on the runtime (aliased).
ChannelUpdate(chan, failed, msg) ==
    LET local   == IF failed THEN Append(chan, msg) ELSE chan
        current == IF aliased THEN local ELSE chan
    IN  current \o local

(***************************************************************************)
(* JobApplicationWorkflow.run and the nodes                                *)
(***************************************************************************)
InitWorkflow ==
    /\ phase = "idle"
    /\ resume_path = "" /\ job_posting = [company |-> "missing", description |-> "missing", other |-> FALSE]
    /\ aliased = FALSE
    /\ resume_data = "empty" /\ company_data = "empty" /\ match_result = "empty"
    /\ ats_score = "empty" /\ optimized_resume = "empty" /\ email = "empty"
    /\ should_apply = FALSE /\ errors = <<>> /\ status = "none"
    /\ pending = {} /\ active = {} /\ returned = {} /\ order = <<>>
    /\ outcome = [n \in Nodes |-> "none"]
    /\ llmCalls = [n \in Nodes |-> 0]

\* run: builds initial_state and hands it to graph.ainvoke
run ==
    /\ phase = "idle"
    /\ phase' = "running"
    /\ resume_path' \in ResumePaths
    /\ job_posting' \in JobPostings
    /\ aliased' \in BOOLEAN
    /\ resume_data' = "empty" /\ company_data' = "empty" /\ match_result' = "empty"
    /\ ats_score' = "empty" /\ optimized_resume' = "empty" /\ email' = "empty"
    /\ should_apply' = FALSE
    /\ errors' = <<>> \o <<>>         \* the input passes through the reducer too
    /\ status' = "Starting"
    /\ pending' = {EntryPoint}
    /\ UNCHANGED <<active, returned, order, outcome, llmCalls>>
    /\ UNCHANGED <<atsVars, ghostVars, bmVars, moreVars>>

\* the graph runtime starts a triggered node
Enter(n) ==
    /\ phase = "running"
    /\ n \in pending
    /\ pending' = pending \ {n}
    /\ active' = active \cup {n}
    /\ order' = Append(order, n)
    /\ UNCHANGED <<inputVars, stateVars, phase, returned, outcome, llmCalls>>
    /\ UNCHANGED <<atsVars, ghostVars, bmVars, moreVars>>

\* the end of a node: the except branch, "return state", and the runtime
\* following the node's outgoing edges
Return(n, r) ==
    /\ outcome' = [outcome EXCEPT ![n] = IF r.at = "none" THEN "returned" ELSE "raised"]
    /\ llmCalls' = [llmCalls EXCEPT ![n] = @ + r.calls]
    /\ active' = active \ {n}
    /\ order' = order
    /\ IF r.at # "none" /\ r.at \notin TryBlock(n)
       THEN /\ phase' = "raised"
            /\ errors' = errors
            /\ returned' = returned
            /\ pending' = {}
       ELSE /\ errors' = ChannelUpdate(errors, r.at # "none", ErrorMessage[n])
            /\ returned' = returned \cup {n}
            /\ pending' = pending \cup (Successors(n, should_apply', r.at # "none") \ {END})
            /\ phase' = IF pending' = {} /\ active' = {} THEN "done" ELSE "running"

parse_resume_node ==
    /\ phase = "running" /\ "parse_resume" \in active
    /\ \E ctor \in Ctors, resp \in LLMResponses :
         LET r == Construct(ctor, ResumeParser_run(resume_path, resp)) IN
         /\ resume_data' = IF r.at = "none" THEN r.result ELSE resume_data
         /\ status' = IF r.at = "none" THEN "Resume parsed" ELSE status
         /\ UNCHANGED <<company_data, match_result, ats_score, optimized_resume,
                        email, should_apply>>
         /\ Return("parse_resume", r)
    /\ UNCHANGED <<inputVars, atsVars, ghostVars, bmVars, moreVars>>

research_company_node ==
    /\ phase = "running" /\ "research_company" \in active
    /\ \E ctor \in Ctors, resp \in LLMResponses :
         LET r == Construct(ctor,
                    IF job_posting.company = "missing" \/ job_posting.description = "missing"
                    THEN Raised("run", 0)      \* KeyError building the input
                    ELSE CompanyResearcher_run(job_posting.company, resp)) IN
         /\ company_data' = IF r.at = "none" THEN r.result ELSE "empty"
         /\ status' = IF r.at = "none" THEN "Company researched" ELSE status
         /\ UNCHANGED <<resume_data, match_result, ats_score, optimized_resume,
                        email, should_apply>>
         /\ Return("research_company", r)
    /\ UNCHANGED <<inputVars, atsVars, ghostVars, bmVars, moreVars>>

\* a plausible slip: only "Apply" continues
ShouldApplyStrict(result) == result.recommendation = "Apply"

\* state["should_apply"] = result["recommendation"] in ["Apply", "Maybe"]
ShouldApply(result) == result.recommendation \in {"Apply", "Maybe"}

match_job_node ==
    /\ phase = "running" /\ "match_job" \in active
    /\ \E ctor \in Ctors, resp \in LLMResponses :
         LET r == Construct(ctor, JobMatcher_run(resume_data, job_posting, company_data, resp)) IN
         /\ match_result' = IF r.at = "none" THEN r.result ELSE match_result
         /\ should_apply' = IF r.at = "none" THEN ShouldApply(r.result) ELSE FALSE
         /\ status' = IF r.at = "none" THEN "Match score" ELSE status
         /\ UNCHANGED <<resume_data, company_data, ats_score, optimized_resume, email>>
         /\ Return("match_job", r)
    /\ UNCHANGED <<inputVars, atsVars, ghostVars, bmVars, moreVars>>

score_ats_node ==
    /\ phase = "running" /\ "score_ats" \in active
    /\ \E ctor \in Ctors, resp \in LLMResponses :
         LET r == Construct(ctor,
                    IF job_posting.description = "missing" \/ company_data = "bad_stack"
                    THEN Raised("run", 0)      \* KeyError / AttributeError building the input
                    ELSE ATSScorer_flow(resume_data, job_posting.description, resp)) IN
         /\ ats_score' = IF r.at = "none" THEN r.result ELSE ats_score
         /\ status' = IF r.at = "none" THEN "ATS score" ELSE status
         /\ UNCHANGED <<resume_data, company_data, match_result, optimized_resume,
                        email, should_apply>>
         /\ Return("score_ats", r)
    /\ UNCHANGED <<inputVars, atsVars, ghostVars, bmVars, moreVars>>

optimize_resume_node ==
    /\ phase = "running" /\ "optimize_resume" \in active
    /\ \E ctor \in Ctors, resp \in LLMResponses :
         LET r == Construct(ctor,
                    IF job_posting.description = "missing"
                    THEN Raised("run", 0)
                    ELSE ResumeOptimizer_run(resume_data, job_posting.description,
                                             company_data, resp)) IN
         /\ optimized_resume' = IF r.at = "none" THEN r.result ELSE optimized_resume
         /\ status' = IF r.at = "none" THEN "Resume optimized" ELSE status
         /\ UNCHANGED <<resume_data, company_data, match_result, ats_score,
                        email, should_apply>>
         /\ Return("optimize_resume", r)
    /\ UNCHANGED <<inputVars, atsVars, ghostVars, bmVars, moreVars>>

write_email_node ==
    /\ phase = "running" /\ "write_email" \in active
    /\ \E ctor \in Ctors, resp \in LLMResponses :
         LET arg == IF optimized_resume = "empty" THEN resume_data ELSE optimized_resume
             r == Construct(ctor, EmailWriter_run(job_posting, arg, company_data, resp)) IN
         /\ email' = IF r.at = "none" THEN r.result ELSE email
         /\ status' = IF r.at = "none" THEN "Email generated" ELSE status
         /\ UNCHANGED <<resume_data, company_data, match_result, ats_score,
                        optimized_resume, should_apply>>
         /\ Return("write_email", r)
    /\ UNCHANGED <<inputVars, atsVars, ghostVars, bmVars, moreVars>>

NextWorkflow ==
    \/ run
    \/ \E n \in Nodes : Enter(n)
    \/ parse_resume_node
    \/ research_company_node
    \/ match_job_node
    \/ score_ats_node
    \/ optimize_resume_node
    \/ write_email_node

(***************************************************************************)
(* Properties of the workflow                                              *)
(***************************************************************************)
Range(seq) == {seq[i] : i \in 1..Len(seq)}

ClaimedOrder == <<"parse_resume", "research_company", "match_job",
                  "score_ats", "optimize_resume", "write_email">>

TotalLLMCalls ==
    llmCalls["parse_resume"] + llmCalls["research_company"] + llmCalls["match_job"]
    + llmCalls["score_ats"] + llmCalls["optimize_resume"] + llmCalls["write_email"]

\* C1: the nodes run strictly one after another in the fixed order
\* parse_resume, research_company, match_job, score_ats, optimize_resume,
\* write_email: the nodes started so far are a prefix of that order, every
\* node but the last started has returned, and at most one node is active.
C1_FixedSequentialOrder ==
    /\ Cardinality(active) <= 1
    /\ Len(order) <= Len(ClaimedOrder)
    /\ order = SubSeq(ClaimedOrder, 1, Len(order))
    /\ \A i \in 1..(Len(order) - 1) : order[i] \in returned
    /\ \A n \in active : n = order[Len(order)] /\ n \notin returned
    /\ pending # {} => active = {}

C1_Witness ==
    /\ phase = "running" /\ active = {"write_email"}
    /\ returned = Nodes \ {"write_email"}

\* C2: after match_job the run goes on to score_ats iff should_apply, and
\* should_apply holds exactly when the matcher returned a recommendation of
\* Apply or Maybe; otherwise the run ends right after match_job.
C2_BranchOnShouldApply ==
    "match_job" \in returned =>
        /\ should_apply <=> /\ outcome["match_job"] = "returned"
                            /\ match_result.recommendation \in {"Apply", "Maybe"}
        /\ should_apply => "score_ats" \in (pending \cup Range(order))
        /\ ~should_apply => /\ phase = "done"
                            /\ order = SubSeq(ClaimedOrder, 1, 3)
                            /\ pending = {}
        /\ (phase = "done" /\ should_apply) =>
               {"score_ats", "optimize_resume", "write_email"} \subseteq returned

C2_Witness ==
    /\ phase = "done" /\ should_apply
    /\ match_result.recommendation = "Maybe"
    /\ "write_email" \in returned

\* C3: an exception raised while constructing or running a node's agent is
\* caught in the node: the node returns, its outgoing edge is followed as
\* usual, and run never raises.
C3_FailuresCaught ==
    /\ phase # "raised"
    /\ \A i \in 1..Len(ClaimedOrder) :
         LET n == ClaimedOrder[i] IN
         outcome[n] = "raised" =>
            /\ n \in returned
            /\ IF n \in {"match_job", "write_email"}
               THEN phase = "done"
               ELSE ClaimedOrder[i + 1] \in (pending \cup Range(order))

C3_Witness ==
    /\ phase = "done"
    /\ outcome["research_company"] = "raised"
    /\ outcome["score_ats"] = "raised"
    /\ outcome["optimize_resume"] = "raised"
    /\ outcome["write_email"] = "raised"

RECURSIVE FailureMessages(_)
FailureMessages(seq) ==
    IF seq = <<>> THEN <<>>
    ELSE (IF outcome[Head(seq)] = "raised" THEN <<ErrorMessage[Head(seq)]>> ELSE <<>>)
         \o FailureMessages(Tail(seq))

\* C4: in the final state errors holds exactly one message per node whose
\* agent call raised, in execution order, and nothing else.
C4_OneErrorPerFailedNode ==
    phase = "done" =>
        /\ errors = FailureMessages(order)
        /\ Len(errors) = Cardinality({n \in Nodes : outcome[n] = "raised"})

\* the progress measure of a run: every step starts a run, starts a node or
\* ends one
Progress == (IF phase = "idle" THEN 0 ELSE 1) + Len(order) + Cardinality(returned)

C5_StateInv ==
    /\ \A i, j \in 1..Len(order) : i # j => order[i] # order[j]
    /\ \A n \in Nodes : outcome[n] = "raised" => n \notin (pending \cup active)
    /\ phase = "done" => /\ returned = Range(order)
                         /\ Len(order) = IF should_apply THEN 6 ELSE 3
    /\ phase \in {"idle", "running"} => ENABLED NextWorkflow

\* C5: every run terminates: each node executes at most once, a failed node
\* is never executed again, every step makes progress, no state short of
\* the end is stuck, and a finished run has executed exactly 3 nodes on
\* the skip branch and 6 on the continue branch.
C5_TerminatesWithoutRetry ==
    /\ []C5_StateInv
    /\ [][Progress' > Progress]_vars

C5_Witness ==
    /\ phase = "done" /\ Len(order) = 6
    /\ \A n \in {"parse_resume", "match_job"} : outcome[n] = "returned"
    /\ \A n \in Nodes \ {"parse_resume", "match_job"} : outcome[n] = "raised"

\* C6: one node execution calls invoke_llm at most once, also when the call
\* fails, so a run makes at most 6 LLM calls and at most 3 on the skip branch.
C6_SingleLLMRoundTrip ==
    /\ \A n \in Nodes : llmCalls[n] <= 1
    /\ \A n \in Nodes : n \notin Range(order) => llmCalls[n] = 0
    /\ TotalLLMCalls <= 6
    /\ (phase = "done" /\ ~should_apply) => TotalLLMCalls <= 3

C6_Witness ==
    /\ phase = "done" /\ TotalLLMCalls = 6
    /\ outcome["write_email"] = "raised"
    /\ outcome["score_ats"] = "raised"


(***************************************************************************)
(* ATSScorer.run: the weighted score                                       *)
(***************************************************************************)
MaxWords == 2

\* a term: a word in one of two spellings that differ only in case
Terms == [word : 1..MaxWords, cap : BOOLEAN]

\* str.lower()
Lower(t) == [word |-> t.word, cap |-> FALSE]

LLMOver == 100
LLMStep == 100
\* the numbers the LLM may put in a score field, in and out of 0..100
LLMScoreValues == {v \in (0 - LLMOver)..(100 + LLMOver) : v % LLMStep = 0}

\* experience_score and format_score of a JSON object answer: a number or absent
ScoreField == [has : {TRUE}, val : LLMScoreValues] \cup [has : {FALSE}, val : {0}]

ATSResponses ==
    [kind : {"raise", "text", "junk"}, exp : {[has |-> FALSE, val |-> 0]},
     fmt : {[has |-> FALSE, val |-> 0]}]
    \cup [kind : {"json"}, exp : ScoreField, fmt : ScoreField]

\* input_data: resume_data ("empty" or parsed, with the skills extracted
\* from it), job_description ("blank" or set, with the keywords extracted
\* from it) and company_tech_stack
ATSInputs ==
    [resume : {"parsed"}, description : {"set"}, resume_skills : SUBSET Terms,
     job_keywords : SUBSET Terms, company_tech_stack : {{}} \cup {{t} : t \in Terms}]
    \cup [resume : {"empty"}, description : {"set"}, resume_skills : {{}},
          job_keywords : SUBSET Terms, company_tech_stack : {{}}]
    \cup [resume : {"parsed"}, description : {"blank"}, resume_skills : SUBSET Terms,
          job_keywords : {{}}, company_tech_stack : {{}}]

\* num / den rounded to the nearest integer, ties to even (round())
RoundDiv(num, den) ==
    LET q == num \div den
        r == num - q * den
    IN  IF 2 * r < den THEN q
        ELSE IF 2 * r > den THEN q + 1
        ELSE IF q % 2 = 0 THEN q ELSE q + 1

\* the number of required terms found in the resume skills, ignoring case
Matches(resume_skills, required) ==
    Cardinality({k \in required : Lower(k) \in {Lower(x) : x \in resume_skills}})

\* a percentage as a fraction num / den
Percent(found, total) ==
    IF total = 0 THEN [num |-> 100, den |-> 1]
    ELSE IF found > total THEN [num |-> 100, den |-> 1]      \* min(score, 100.0)
    ELSE [num |-> 100 * found, den |-> total]

_calculate_keyword_score(resume_skills, job_keywords) ==
    Percent(Matches(resume_skills, job_keywords), Cardinality(job_keywords))

_calculate_skills_score(resume_skills, job_keywords, company_tech_stack) ==
    LET all_required == job_keywords \cup company_tech_stack
    IN  Percent(Matches(resume_skills, all_required), Cardinality(all_required))

\* _llm_analysis followed by llm_analysis.get(field, default)
LLMField(resp, field, default) ==
    IF resp.kind = "text" THEN default          \* the JSONDecodeError fallback
    ELSE IF field.has THEN field.val ELSE default

\* a plausible slip: the weights of the keyword and skills scores exchanged
WeightedTotalSwapped(k, s, e, f) ==
    [num |-> 3 * k.num * s.den + 4 * s.num * k.den + (2 * e + f) * k.den * s.den,
     den |-> k.den * s.den * 10]

\* total_score = keyword * 0.4 + skills * 0.3 + experience * 0.2 + format * 0.1,
\* as the exact fraction num / den of points (the code computes it in
\* binary floating point, which differs from it by rounding error only)
WeightedTotal(k, s, e, f) ==
    [num |-> 4 * k.num * s.den + 3 * s.num * k.den + (2 * e + f) * k.den * s.den,
     den |-> k.den * s.den * 10]

\* the result dict of ATSScorer.run; scores rounded to one decimal are held
\* in tenths of a point
ATSScorer_score(in, resp) ==
    LET k == _calculate_keyword_score(in.resume_skills, in.job_keywords)
        s == _calculate_skills_score(in.resume_skills, in.job_keywords,
                                     in.company_tech_stack)
        e == LLMField(resp, resp.exp, 70)
        f == LLMField(resp, resp.fmt, 90)
        t == WeightedTotal(k, s, e, f)
    IN  [score10 |-> RoundDiv(10 * t.num, t.den),
         keyword_score10 |-> RoundDiv(10 * k.num, k.den),
         skills_score10 |-> RoundDiv(10 * s.num, s.den),
         experience_score |-> e,
         format_score |-> f]

ATSScorer_run(in, resp) ==
    LET flow == ATSScorer_flow(in.resume, in.description, resp)
    IN  IF flow.at # "none" THEN flow
        ELSE Returned(flow.calls, ATSScorer_score(in, resp))

NoCall == [at |-> "not_called", calls |-> 0, result |-> Missing]

ATSOff == ats_pc = "off" /\ ats_in = Missing /\ ats_llm = Missing /\ ats_out = NoCall

InitATS == ats_pc = "call" /\ ats_in \in ATSInputs /\ ats_llm = Missing /\ ats_out = NoCall

\* one call of ATSScorer.run
ats_run ==
    /\ ats_pc = "call"
    /\ ats_llm' \in ATSResponses
    /\ ats_out' = ATSScorer_run(ats_in, ats_llm')
    /\ ats_pc' = "done"
    /\ UNCHANGED <<ats_in, wfVars, ghostVars, bmVars, moreVars>>

NextATS == ats_run

(***************************************************************************)
(* GhostJobDetector.run                                                    *)
(***************************************************************************)
NumTypoIndicators == 4

\* a job posting as the heuristics see it: which red flags it raises
GhostJobs ==
    [empty : {FALSE}, no_salary : BOOLEAN, short_description : BOOLEAN, urgency : BOOLEAN,
     entry_overreq : BOOLEAN, typos : 0..NumTypoIndicators, generic_company : BOOLEAN,
     no_requirements : BOOLEAN]
    \cup [empty : {TRUE}, no_salary : {TRUE}, short_description : {TRUE}, urgency : {FALSE},
          entry_overreq : {FALSE}, typos : {0}, generic_company : {FALSE},
          no_requirements : {TRUE}]

GhostResponses ==
    [kind : {"raise", "text", "junk"}, score : {[has |-> FALSE, val |-> 0]}]
    \cup [kind : {"json"}, score : ScoreField]

Min(a, b) == IF a < b THEN a ELSE b
Abs(a) == IF a < 0 THEN 0 - a ELSE a

_calculate_heuristic_score(job) ==
    LET score == (IF job.no_salary THEN 20 ELSE 0)
               + (IF job.short_description THEN 15 ELSE 0)
               + (IF job.urgency THEN 15 ELSE 0)
               + (IF job.entry_overreq THEN 10 ELSE 0)
               + Min(job.typos * 5, 15)
               + (IF job.generic_company THEN 10 ELSE 0)
               + (IF job.no_requirements THEN 15 ELSE 0)
    IN  Min(score, 100)

_get_recommendation(final10) ==
    IF final10 < 400 THEN "Apply"
    ELSE IF final10 < 650 THEN "Caution"
    ELSE "Skip"

\* final_score (in tenths) = heuristic * 0.4 + llm score * 0.6, and the
\* result dict: ghost_score rounded to one decimal (tenths), confidence
\* rounded to two (hundredths)
GhostJobDetector_score(job, resp) ==
    LET h == _calculate_heuristic_score(job)
        l == LLMField(resp, resp.score, 50)
        final10 == 4 * h + 6 * l
    IN  [is_ghost_job |-> final10 > 600,
         confidence100 |-> RoundDiv(Abs(final10 - 500) * 100, 500),
         ghost_score10 |-> final10,
         recommendation |-> _get_recommendation(final10)]

GhostJobDetector_run(job, resp) ==
    IF job.empty THEN Raised("run", 0)          \* "job_posting is required"
    ELSE LET l == invoke_llm(resp) IN
         IF l.raised THEN Raised("run", l.calls)
         ELSE IF resp.kind = "junk" THEN Raised("run", l.calls)   \* llm_analysis.get
         ELSE Returned(l.calls, GhostJobDetector_score(job, resp))

GhostOff ==
    ghost_pc = "off" /\ ghost_in = Missing /\ ghost_llm = Missing /\ ghost_out = NoCall

InitGhost ==
    ghost_pc = "call" /\ ghost_in \in GhostJobs /\ ghost_llm = Missing /\ ghost_out = NoCall

\* one call of GhostJobDetector.run
ghost_run ==
    /\ ghost_pc = "call"
    /\ ghost_llm' \in GhostResponses
    /\ ghost_out' = GhostJobDetector_run(ghost_in, ghost_llm')
    /\ ghost_pc' = "done"
    /\ UNCHANGED <<ghost_in, wfVars, atsVars, bmVars, moreVars>>

NextGhost == ghost_run

(***************************************************************************)
(* JobMatcher.batch_match                                                  *)
(***************************************************************************)
MaxJobs == 3
DefaultMinScore == 50

BatchJobs == {[company |-> "missing", description |-> "missing", other |-> FALSE],
              [company |-> "set", description |-> "set", other |-> TRUE]}

BatchJobLists == UNION {[1..n -> BatchJobs] : n \in 0..MaxJobs}

MinScores == {DefaultMinScore, FallbackMatchScore}

\* the answers of the LLM that make the matcher's outcomes differ
BatchResponses == {r \in LLMResponses : r.rec \in {"Apply", Missing} /\ r.shape = "ok"}

RECURSIVE InsertDescending(_, _)
\* x placed behind every entry whose match_score is not lower than its own
InsertDescending(x, seq) ==
    IF seq = <<>> THEN <<x>>
    ELSE IF Head(seq).match_result.match_score >= x.match_result.match_score
         THEN <<Head(seq)>> \o InsertDescending(x, Tail(seq))
         ELSE <<x>> \o seq

RECURSIVE InsertAscending(_, _)
InsertAscending(x, seq) ==
    IF seq = <<>> THEN <<x>>
    ELSE IF Head(seq).match_result.match_score <= x.match_result.match_score
         THEN <<Head(seq)>> \o InsertAscending(x, Tail(seq))
         ELSE <<x>> \o seq

RECURSIVE SortInto(_, _)
SortInto(acc, rest) ==
    IF rest = <<>> THEN acc
    ELSE SortInto(InsertDescending(Head(rest), acc), Tail(rest))

RECURSIVE SortIntoAscending(_, _)
SortIntoAscending(acc, rest) ==
    IF rest = <<>> THEN acc
    ELSE SortIntoAscending(InsertAscending(Head(rest), acc), Tail(rest))

\* a plausible slip: reverse=True left out
sort_ascending(list) == SortIntoAscending(<<>>, list)

\* matches.sort(key=lambda x: x[1]["match_score"], reverse=True): a stable
\* sort, highest score first
sort_by_match_score(list) == SortInto(<<>>, list)

BatchOff ==
    /\ bm_pc = "off" /\ bm_resume = "empty" /\ bm_jobs = <<>>
    /\ bm_min = DefaultMinScore /\ bm_log = <<>> /\ matches = <<>>

InitBatch ==
    /\ bm_pc = "loop"
    /\ bm_resume \in {"empty", "parsed"}
    /\ bm_jobs \in BatchJobLists
    /\ bm_min \in MinScores
    /\ bm_log = <<>> /\ matches = <<>>

\* one iteration of "for job in job_postings"
batch_match_iteration ==
    /\ bm_pc = "loop"
    /\ Len(bm_log) < Len(bm_jobs)
    /\ \E resp \in BatchResponses :
         LET i == Len(bm_log) + 1
             r == JobMatcher_run(bm_resume, bm_jobs[i], "empty", resp)
         IN  /\ bm_log' = Append(bm_log, r)
             /\ matches' =
                  IF r.at = "none" /\ r.result.match_score >= bm_min
                  THEN Append(matches, [index |-> i, job |-> bm_jobs[i],
                                        match_result |-> r.result])
                  ELSE matches
    /\ UNCHANGED <<bm_pc, bm_resume, bm_jobs, bm_min, wfVars, atsVars, ghostVars, moreVars>>

\* the end of the loop: the sort and the return
batch_match_return ==
    /\ bm_pc = "loop"
    /\ Len(bm_log) = Len(bm_jobs)
    /\ matches' = sort_by_match_score(matches)
    /\ bm_pc' = "done"
    /\ UNCHANGED <<bm_resume, bm_jobs, bm_min, bm_log, wfVars, atsVars, ghostVars, moreVars>>

NextBatch == batch_match_iteration \/ batch_match_return

(***************************************************************************)
(* GhostJobDetector.batch_detect                                           *)
(***************************************************************************)
\* the postings a batch is made of: an empty dict, one raising no red flag,
\* one raising them all
BatchDetectJobs ==
    {j \in GhostJobs : \/ j.empty
                       \/ _calculate_heuristic_score(j) = 0
                       \/ _calculate_heuristic_score(j) = 100}

BatchDetectJobLists == UNION {[1..n -> BatchDetectJobs] : n \in 0..MaxJobs}

\* the answers of the LLM with a score within 0..100 or none
BatchDetectResponses ==
    {r \in GhostResponses : r.score.val >= 0 /\ r.score.val <= 100}

\* a plausible slip: the loop body without its try / except
detect_entry_unguarded(r) ==
    [raised |-> r.at # "none",
     ghost_detection |-> [error |-> r.at # "none", value |-> r.result]]

\* the body of "for job in jobs" once self.run returned or raised: the
\* ghost_detection stored in the job, and whether the exception leaves the loop
detect_entry(r) ==
    [raised |-> FALSE,
     ghost_detection |-> [error |-> r.at # "none", value |-> r.result]]

BatchDetectOff ==
    bd_pc = "off" /\ bd_jobs = <<>> /\ bd_log = <<>> /\ bd_results = <<>>

InitBatchDetect ==
    bd_pc = "loop" /\ bd_jobs \in BatchDetectJobLists /\ bd_log = <<>> /\ bd_results = <<>>

\* one iteration of "for job in jobs"
batch_detect_iteration ==
    /\ bd_pc = "loop"
    /\ Len(bd_log) < Len(bd_jobs)
    /\ \E resp \in BatchDetectResponses :
         LET i == Len(bd_log) + 1
             r == GhostJobDetector_run(bd_jobs[i], resp)
             e == detect_entry(r)
         IN  /\ bd_log' = Append(bd_log, r)
             /\ IF e.raised
                THEN bd_pc' = "raised" /\ bd_results' = bd_results
                ELSE /\ bd_pc' = bd_pc
                     /\ bd_results' = Append(bd_results,
                            [index |-> i, job |-> bd_jobs[i],
                             ghost_detection |-> e.ghost_detection])
    /\ UNCHANGED <<bd_jobs, firstVars, otherThanBd>>

\* "return results"
batch_detect_return ==
    /\ bd_pc = "loop"
    /\ Len(bd_log) = Len(bd_jobs)
    /\ bd_pc' = "done"
    /\ UNCHANGED <<bd_jobs, bd_log, bd_results, firstVars, otherThanBd>>

NextBatchDetect == batch_detect_iteration \/ batch_detect_return

(***************************************************************************)
(* mcp_server/services/ats_scorer.py: ATSScorer.calculate_ats_score.        *)
(* The component scores are exact fractions num / den; the rounded values   *)
(* of the returned dictionary are in tenths.                                *)
(***************************************************************************)
MaxYears == 3

Frac(n, d) == [num |-> n, den |-> d]
FracAdd(a, b) == Frac(a.num * b.den + b.num * a.den, a.den * b.den)
FracLeq(a, b) == a.num * b.den <= b.num * a.den
\* round(x, 1), in tenths
Round1(x) == RoundDiv(10 * x.num, x.den)

\* set(skill.lower() for skill in ...)
LowerSet(S) == {Lower(x) : x \in S}

\* the entries of the education lists
EducationEntries ==
    {"Bachelor of Science", "Master of Science", "MBA", "PhD", "Associate Degree"}

\* edu.lower()
EduLower(e) ==
    CASE e = "Bachelor of Science" -> "bachelor of science"
      [] e = "Master of Science"   -> "master of science"
      [] e = "MBA"                 -> "mba"
      [] e = "PhD"                 -> "phd"
      [] e = "Associate Degree"    -> "associate degree"
      [] OTHER                     -> e

DegreeLevels == <<"bachelor", "master", "phd">>

degree_keywords ==
    [level \in {"bachelor", "master", "phd"} |->
        CASE level = "bachelor" -> {"bachelor", "bs", "ba", "bsc", "btech", "b.tech"}
          [] level = "master"   -> {"master", "ms", "ma", "msc", "mtech", "m.tech", "mba"}
          [] level = "phd"      -> {"phd", "ph.d", "doctorate"}]

\* kw in e, for the keywords of degree_keywords and a lower-cased entry
KeywordsIn(e) ==
    CASE e = "bachelor of science" -> {"bachelor", "ba"}
      [] e = "master of science"   -> {"master", "ma"}
      [] e = "mba"                 -> {"ba", "mba"}
      [] e = "phd"                 -> {"phd"}
      [] OTHER                     -> {}

\* kw in " ".join(education): no keyword holds a space, so a keyword is in
\* the joined string iff it is in one of the entries
KeywordsInJoined(education) == UNION {KeywordsIn(e) : e \in education}

NoLevel == "none"

\* the loop over degree_keywords.items(), left at the first level found
RECURSIVE DetectFrom(_, _)
DetectFrom(education, k) ==
    IF k > Len(DegreeLevels) THEN NoLevel
    ELSE IF KeywordsInJoined(education) \cap degree_keywords[DegreeLevels[k]] # {}
         THEN DegreeLevels[k]
         ELSE DetectFrom(education, k + 1)

DetectLevel(education) == DetectFrom(education, 1)

mcp_calculate_skills_score(resume_skills, required_skills, preferred_skills) ==
    IF required_skills = {} /\ preferred_skills = {} THEN Frac(0, 1)
    ELSE LET required_match ==
                 IF required_skills # {}
                 THEN Frac(Cardinality(resume_skills \cap required_skills),
                           Cardinality(required_skills))
                 ELSE Frac(1, 1)
             preferred_match ==
                 IF preferred_skills # {}
                 THEN Frac(Cardinality(resume_skills \cap preferred_skills),
                           Cardinality(preferred_skills))
                 ELSE Frac(1, 1)
         \* (required_match * 0.7 + preferred_match * 0.3) * 50
         IN  Frac(35 * required_match.num * preferred_match.den
                    + 15 * preferred_match.num * required_match.den,
                  required_match.den * preferred_match.den)

\* a plausible slip: the ratio not capped at 1.0
experience_score_uncapped(resume_years, required_years) ==
    IF required_years = 0 THEN Frac(30, 1)
    ELSE IF 2 * resume_years < required_years
         THEN Frac(24 * resume_years, required_years)
         ELSE Frac(30 * resume_years, required_years)

mcp_calculate_experience_score(resume_years, required_years) ==
    IF required_years = 0 THEN Frac(30, 1)
    ELSE IF resume_years >= required_years THEN Frac(30, 1)     \* min(ratio, 1.0)
    ELSE IF 2 * resume_years < required_years
         THEN Frac(24 * resume_years, required_years)           \* ratio * 0.8 * 30
         ELSE Frac(30 * resume_years, required_years)

mcp_calculate_education_score(resume_education, required_education) ==
    IF required_education = {} THEN 10
    ELSE LET resume_level   == DetectLevel(resume_education)
             required_level == DetectLevel(required_education)
         IN  IF resume_level = required_level THEN 10
             ELSE IF resume_level = "master" /\ required_level = "bachelor" THEN 10
             ELSE IF resume_level = "phd" THEN 10
             ELSE IF resume_level # NoLevel THEN 6
             ELSE 0

mcp_calculate_keyword_score(resume_skills, keywords) ==
    IF keywords = {} THEN Frac(10, 1)
    ELSE Frac(10 * Cardinality(resume_skills \cap keywords), Cardinality(keywords))

Max(a, b) == IF a > b THEN a ELSE b

calculate_ats_score(in) ==
    LET resume_skills      == LowerSet(in.skills)
        resume_education   == {EduLower(e) : e \in in.education}
        required_skills    == LowerSet(in.required_skills)
        preferred_skills   == LowerSet(in.preferred_skills)
        required_education == {EduLower(e) : e \in in.education_required}
        keywords           == LowerSet(in.keywords)
        skills_score     == mcp_calculate_skills_score(resume_skills, required_skills,
                                                       preferred_skills)
        experience_score == mcp_calculate_experience_score(in.experience_years,
                                                           in.experience_required_years)
        education_score  == mcp_calculate_education_score(resume_education,
                                                          required_education)
        keyword_score    == mcp_calculate_keyword_score(resume_skills, keywords)
        total_score      == FracAdd(FracAdd(skills_score, experience_score),
                                    FracAdd(Frac(education_score, 1), keyword_score))
    IN  [ats_score10 |-> Round1(total_score),
         breakdown10 |-> [skills_match     |-> Round1(skills_score),
                          experience_match |-> Round1(experience_score),
                          education_match  |-> 10 * education_score,
                          keyword_density  |-> Round1(keyword_score)],
         matching_required |-> resume_skills \cap required_skills,
         missing_required  |-> required_skills \ resume_skills,
         experience_gap |-> Max(0, in.experience_required_years - in.experience_years),
         \* the locals the returned values are computed from
         skills_score |-> skills_score, experience_score |-> experience_score,
         education_score |-> education_score, keyword_score |-> keyword_score,
         total_score |-> total_score,
         resume_level |-> DetectLevel(resume_education),
         required_level |-> DetectLevel(required_education)]

UpperTerms == {t \in Terms : t.cap}
LowerTerms == {t \in Terms : ~t.cap}
FewTermSets == {{}, {[word |-> 1, cap |-> TRUE]}, LowerTerms}
Years == 0..MaxYears

McpInputs(resume_edu, required_edu) ==
    [skills : SUBSET UpperTerms, required_skills : SUBSET LowerTerms,
     preferred_skills : FewTermSets, keywords : FewTermSets,
     experience_years : Years, experience_required_years : Years,
     education : resume_edu, education_required : required_edu]

McpNoResult == calculate_ats_score(
    [skills |-> {}, required_skills |-> {}, preferred_skills |-> {}, keywords |-> {},
     experience_years |-> 0, experience_required_years |-> 0,
     education |-> {}, education_required |-> {}])

McpOff ==
    /\ mcp_pc = "off"
    /\ mcp_in = [skills |-> {}, required_skills |-> {}, preferred_skills |-> {},
                 keywords |-> {}, experience_years |-> 0,
                 experience_required_years |-> 0,
                 education |-> {}, education_required |-> {}]
    /\ mcp_out = McpNoResult

\* calls with every skill and experience input of the bounds
InitMcpScore ==
    /\ mcp_pc = "ready"
    /\ mcp_in \in McpInputs({{}, {"Bachelor of Science"}, {"PhD"}},
                            {{}, {"Master of Science"}})
    /\ mcp_out = McpNoResult

\* calls with every pair of education lists
InitMcpEducation ==
    /\ mcp_pc = "ready"
    /\ mcp_in \in [skills : {{}}, required_skills : {{}}, preferred_skills : {{}},
                   keywords : {{}}, experience_years : {0},
                   experience_required_years : {0},
                   education : SUBSET EducationEntries,
                   education_required : SUBSET EducationEntries]
    /\ mcp_out = McpNoResult

mcp_calculate_ats_score ==
    /\ mcp_pc = "ready"
    /\ mcp_pc' = "done"
    /\ mcp_out' = calculate_ats_score(mcp_in)
    /\ UNCHANGED <<mcp_in, firstVars, otherThanMcp>>

NextMcp == mcp_calculate_ats_score

(***************************************************************************)
(* mcp_server/storage/db_manager.py: DatabaseManager.connect_all, and the   *)
(* lifespan of the application that calls it.                               *)
(***************************************************************************)
Stores == <<"postgres", "qdrant", "neo4j", "redis">>
StoreNames == {Stores[k] : k \in 1..Len(Stores)}

\* what a connect_* method may do: succeed, raise ValueError because its URL
\* is not set, raise while creating the client; connect_redis may also raise
\* in ping(), after self.redis_client was assigned
ConnectOutcomes(store) ==
    IF store = "redis" THEN {"ok", "no_url", "raise", "ping_raise"}
    ELSE {"ok", "no_url", "raise"}

Environments == {e \in [StoreNames -> {"ok", "no_url", "raise", "ping_raise"}] :
                    \A st \in StoreNames : e[st] \in ConnectOutcomes(st)}

\* connect_<store>(): whether it raises, and whether the attribute is assigned
Connect(store, does) ==
    [raised |-> does # "ok",
     assigned |-> does \in {"ok", "ping_raise"}]

StoreAfter(store) ==
    CASE store = "postgres" -> "qdrant"
      [] store = "qdrant"   -> "neo4j"
      [] store = "neo4j"    -> "redis"
      [] OTHER              -> "return_true"

\* a plausible slip: every store required
AfterTryAllRequired(store, raised) ==
    IF raised THEN "return_false" ELSE StoreAfter(store)

\* where connect_all goes after the try block of a store
AfterTry(store, raised) ==
    IF store = "postgres" /\ raised THEN "return_false" ELSE StoreAfter(store)

NoHandles == [st \in StoreNames |-> "none"]

DbOff ==
    /\ db_pc = "off"
    /\ db_env = [st \in StoreNames |-> "ok"]
    /\ db_attempts = <<>>
    /\ db_handles = NoHandles
    /\ success_count = 0
    /\ db_ret = "none"

\* DatabaseManager.__init__, and lifespan about to call connect_all
InitDb ==
    /\ db_pc = "postgres"
    /\ db_env \in Environments
    /\ db_attempts = <<>>
    /\ db_handles = NoHandles
    /\ success_count = 0
    /\ db_ret = "none"

\* one try block of connect_all, and the return that follows it if any
connect_all_step(store) ==
    /\ db_pc = store
    /\ LET c == Connect(store, db_env[store])
           to == AfterTry(store, c.raised)
       IN  /\ db_attempts' = Append(db_attempts, store)
           /\ db_handles' = IF c.assigned THEN [db_handles EXCEPT ![store] = "open"]
                            ELSE db_handles
           /\ success_count' = IF c.raised THEN success_count ELSE success_count + 1
           /\ db_pc' = IF to \in {"return_true", "return_false"} THEN "returned" ELSE to
           /\ db_ret' = CASE to = "return_true"  -> "True"
                          [] to = "return_false" -> "False"
                          [] OTHER               -> db_ret
    /\ UNCHANGED <<db_env, firstVars, otherThanDb>>

connect_postgres == connect_all_step("postgres")
connect_qdrant   == connect_all_step("qdrant")
connect_neo4j    == connect_all_step("neo4j")
connect_redis    == connect_all_step("redis")

\* lifespan: success = connect_all(); a warning if not success; yield
lifespan_startup ==
    /\ db_pc = "returned"
    /\ db_pc' = "serving"
    /\ UNCHANGED <<db_env, db_attempts, db_handles, success_count, db_ret,
                   firstVars, otherThanDb>>

\* lifespan after the yield: close_all()
close_all ==
    /\ db_pc = "serving"
    /\ db_pc' = "closed"
    /\ db_handles' = [st \in StoreNames |->
                        IF st \in {"postgres", "neo4j", "redis"} /\ db_handles[st] = "open"
                        THEN "closed" ELSE db_handles[st]]
    /\ UNCHANGED <<db_env, db_attempts, success_count, db_ret, firstVars, otherThanDb>>

NextDb ==
    \/ connect_postgres
    \/ connect_qdrant
    \/ connect_neo4j
    \/ connect_redis
    \/ lifespan_startup
    \/ close_all

(***************************************************************************)
(* mcp_server/app/main.py: POST /resumes and GET /resumes/{resume_id}.      *)
(***************************************************************************)
MaxResumeIds == 2
ResumeIds == 1..MaxResumeIds
Contents == {"cv-a", "cv-b"}
NoRow == "no row"

\* the names bound at module level of main.py that the handlers use
ModuleNames == {"HTTPException", "get_postgres_session", "get_redis_client", "db_manager"}

\* the names a handler imports in its own body
LocalNames(handler) ==
    CASE handler = "upload_resume" -> {"text"}       \* from sqlalchemy import text
      [] handler = "get_resume"    -> {}
      [] OTHER                     -> {}

\* evaluating a name in a handler raises NameError unless it is bound
NameError(handler, name) == name \notin (ModuleNames \cup LocalNames(handler))

\* session.execute(text(stmt), params) raises unless every bind parameter of
\* the statement has a value in params
MissingBindParameter(stmt_params, params_keys) == ~(stmt_params \subseteq params_keys)

\* the keys of the dictionary each handler passes for its ":id" statement
ParamsKeys(handler) ==
    CASE handler = "upload_resume" -> {"id"}
      [] handler = "get_resume"    -> {" id"}
      [] OTHER                     -> {}

\* str(e) of an HTTPException: "<status>: <detail>", or empty with the
\* releases of the framework that define no __str__
StrHTTPException(status_code, detail) ==
    {"", IF status_code = 400 THEN "400: Resume ID already exists"
         ELSE "404: Resume not found"}

Response(status_code, detail, resume_id, content, message) ==
    [status |-> status_code, detail |-> detail, resume_id |-> resume_id,
     content |-> content, message |-> message]

NoRequest == [op |-> "none", resume_id |-> 0, content |-> "", db_fault |-> FALSE]

\* whether the handler has "except HTTPException: raise" before its
\* "except Exception"
HandlerReraises(handler) ==
    CASE handler = "upload_resume" -> FALSE
      [] handler = "get_resume"    -> TRUE
      [] OTHER                     -> FALSE

\* the responses to an HTTPException raised inside the try block of a handler
RaisedHTTPException(handler, status_code, detail) ==
    IF HandlerReraises(handler)
    THEN {Response(status_code, detail, 0, "", "")}
    ELSE {Response(500, d, 0, "", "") : d \in StrHTTPException(status_code, detail)}

ResumeOff ==
    /\ api_on = FALSE
    /\ resumes = [x \in ResumeIds |-> NoRow]
    /\ redis_client = FALSE
    /\ redis_cache = [x \in ResumeIds |-> NoRow]
    /\ resumes_before = [x \in ResumeIds |-> NoRow]
    /\ api_req = NoRequest
    /\ api_resp = Response(0, "", 0, "", "")

\* the server started on an empty table, with or without Redis
InitResume ==
    /\ api_on = TRUE
    /\ resumes = [x \in ResumeIds |-> NoRow]
    /\ redis_client \in BOOLEAN
    /\ redis_cache = [x \in ResumeIds |-> NoRow]
    /\ resumes_before = [x \in ResumeIds |-> NoRow]
    /\ api_req = NoRequest
    /\ api_resp = Response(0, "", 0, "", "")

\* POST /resumes
upload_resume ==
    /\ api_on
    /\ \E id \in ResumeIds, content \in Contents, db_fault \in BOOLEAN,
          redis_fault \in BOOLEAN :
         /\ api_req' = [op |-> "upload", resume_id |-> id, content |-> content,
                        db_fault |-> db_fault]
         /\ resumes_before' = resumes
         /\ IF db_fault \/ NameError("upload_resume", "text")
               \/ MissingBindParameter({"id"}, ParamsKeys("upload_resume"))
            THEN /\ api_resp' = Response(500, "error", 0, "", "")
                 /\ UNCHANGED <<resumes, redis_cache>>
            ELSE IF resumes[id] # NoRow
            THEN /\ api_resp' \in RaisedHTTPException("upload_resume", 400,
                                                      "Resume ID already exists")
                 /\ UNCHANGED <<resumes, redis_cache>>
            ELSE /\ resumes' = [resumes EXCEPT ![id] = content]
                 /\ redis_cache' = IF redis_client /\ ~redis_fault
                                   THEN [redis_cache EXCEPT ![id] = content]
                                   ELSE redis_cache
                 /\ api_resp' = Response(200, "", id, "", "Resume stored")
    /\ UNCHANGED <<api_on, redis_client, firstVars, otherThanResume>>

\* GET /resumes/{resume_id}
get_resume ==
    /\ api_on
    /\ \E id \in ResumeIds, db_fault \in BOOLEAN :
         /\ api_req' = [op |-> "get", resume_id |-> id, content |-> "",
                        db_fault |-> db_fault]
         /\ resumes_before' = resumes
         /\ IF db_fault \/ NameError("get_resume", "text")
               \/ MissingBindParameter({"id"}, ParamsKeys("get_resume"))
            THEN api_resp' = Response(500, "error", 0, "", "")
            ELSE IF resumes[id] = NoRow
            THEN api_resp' \in RaisedHTTPException("get_resume", 404, "Resume not found")
            ELSE api_resp' = Response(200, "", id, resumes[id], "")
    /\ UNCHANGED <<api_on, resumes, redis_client, redis_cache, firstVars, otherThanResume>>

NextResume == upload_resume \/ get_resume

(***************************************************************************)
(* mcp_server/app/main.py: POST /jobs/scrape.  One session, hence one       *)
(* transaction, is shared by the whole loop: session.rollback() discards    *)
(* every insert made since the last commit or rollback.                     *)
(***************************************************************************)
ScrapedCompanies == {"Acme", "ACME"}
ScrapedTitles == {"dev", "ops"}

\* job['company'].lower() with its blanks and dots replaced
CompanySlug(company) ==
    CASE company = "Acme" -> "acme"
      [] company = "ACME" -> "acme"
      [] OTHER            -> company

\* hash(job['title']) % 10000
TitleHash(title) == IF title = "dev" THEN "7" ELSE "8"

\* job_id: company, second of the request, hash of the title; the jobs of a
\* batch are handled within the same second
JobId(job) == <<CompanySlug(job.company), TitleHash(job.title)>>

\* a scraped job, and whether the INSERT INTO job_postings raises for it
ScrapedJobs == [company : ScrapedCompanies, title : ScrapedTitles, insert_raises : BOOLEAN]

ScrapedJobLists == UNION {[1..n -> ScrapedJobs] : n \in 0..MaxJobs}

NoId == [has |-> FALSE, id |-> <<>>]

NoScrapeResponse == [message |-> "", stored |-> 0, ids |-> <<>>]

ScrapeOff ==
    /\ scrape_pc = "off"
    /\ scrape_jobs = <<>> /\ scrape_ids = <<>> /\ stored_count = 0
    /\ session_jobs = {} /\ session_companies = {}
    /\ job_postings = {} /\ companies = {}
    /\ scrape_resp = NoScrapeResponse

\* a request on empty tables, scrape_real_jobs returning any list of the bounds
InitScrape ==
    /\ scrape_pc = "start"
    /\ scrape_jobs \in ScrapedJobLists
    /\ scrape_ids = <<>> /\ stored_count = 0
    /\ session_jobs = {} /\ session_companies = {}
    /\ job_postings = {} /\ companies = {}
    /\ scrape_resp = NoScrapeResponse

\* scrape, "if not jobs: return", enrich, session = get_postgres_session()
scrape_begin ==
    /\ scrape_pc = "start"
    /\ IF scrape_jobs = <<>>
       THEN /\ scrape_pc' = "done"
            /\ scrape_resp' = [message |-> "No jobs found", stored |-> 0, ids |-> <<>>]
       ELSE /\ scrape_pc' = "loop"
            /\ scrape_resp' = scrape_resp
    /\ UNCHANGED <<scrape_jobs, scrape_ids, stored_count, session_jobs,
                   session_companies, job_postings, companies,
                   firstVars, otherThanScrape>>

\* one iteration of "for job in jobs"
scrape_store_job ==
    /\ scrape_pc = "loop"
    /\ Len(scrape_ids) < Len(scrape_jobs)
    /\ LET job == scrape_jobs[Len(scrape_ids) + 1]
           job_id == JobId(job)
           company_id == CompanySlug(job.company)
       IN  IF job.insert_raises
           THEN \* except: session.rollback(); continue
                /\ session_jobs' = {}
                /\ session_companies' = {}
                /\ stored_count' = stored_count
                /\ scrape_ids' = Append(scrape_ids, NoId)
           ELSE \* both INSERT ... ON CONFLICT DO NOTHING
                /\ session_companies' = IF company_id \in companies
                                        THEN session_companies
                                        ELSE session_companies \cup {company_id}
                /\ session_jobs' = IF job_id \in job_postings
                                   THEN session_jobs
                                   ELSE session_jobs \cup {job_id}
                /\ stored_count' = stored_count + 1
                /\ scrape_ids' = Append(scrape_ids, [has |-> TRUE, id |-> job_id])
    /\ UNCHANGED <<scrape_pc, scrape_jobs, job_postings, companies, scrape_resp,
                   firstVars, otherThanScrape>>

\* session.commit(); session.close(); return {...}
scrape_commit ==
    /\ scrape_pc = "loop"
    /\ Len(scrape_ids) = Len(scrape_jobs)
    /\ job_postings' = job_postings \cup session_jobs
    /\ companies' = companies \cup session_companies
    /\ session_jobs' = {}
    /\ session_companies' = {}
    /\ scrape_resp' = [message |-> "Scraped and stored", stored |-> stored_count,
                       ids |-> scrape_ids]
    /\ scrape_pc' = "done"
    /\ UNCHANGED <<scrape_jobs, scrape_ids, stored_count, firstVars, otherThanScrape>>

NextScrape == scrape_begin \/ scrape_store_job \/ scrape_commit

(***************************************************************************)
(* mcp_server/services/news_service.py: NewsService.fetch_news.             *)
(***************************************************************************)
StartClock == 100
MaxElapsed == 61
MaxClock == StartClock + MaxElapsed

cache_duration == 60

feeds == <<"https://news.google.com/rss/topics/...">>

\* what requests.get and the parsing of the feed may give: an exception
\* (network, timeout, malformed XML), a status other than 200, or a feed with
\* these entries, "" standing for an entry without title or link
FeedResponses ==
    {[kind |-> "raise", entries |-> <<>>],
     [kind |-> "status", entries |-> <<>>],
     [kind |-> "ok", entries |-> <<>>],
     [kind |-> "ok", entries |-> <<"t1">>],
     [kind |-> "ok", entries |-> <<"", "t2">>],
     [kind |-> "ok", entries |-> <<"t1", "t2", "t3", "t4">>]}

_get_source_name(url) == "Google News"

\* "for item in items[:3]": the first three entries, those with title and link
RECURSIVE ParseItems(_, _)
ParseItems(entries, k) ==
    IF k > Len(entries) \/ k > 3 THEN <<>>
    ELSE (IF entries[k] # ""
          THEN <<[title |-> entries[k], source |-> _get_source_name(feeds[1])]>>
          ELSE <<>>) \o ParseItems(entries, k + 1)

\* news_items after the loop over self.feeds
FetchedItems(resp) == IF resp.kind = "ok" THEN ParseItems(resp.entries, 1) ELSE <<>>

\* a plausible slip: the cache still valid at exactly cache_duration seconds
CacheValidInclusive(c, current_time, fetched_at) ==
    c # <<>> /\ current_time - fetched_at <= cache_duration

\* self.cache and (current_time - self.last_fetch < self.cache_duration)
CacheValid(c, current_time, fetched_at) ==
    c # <<>> /\ current_time - fetched_at < cache_duration

NoNewsCall ==
    [made |-> FALSE, current_time |-> 0, response |-> [kind |-> "none", entries |-> <<>>],
     requests |-> 0, returned |-> <<>>, cache_before |-> <<>>, last_fetch_before |-> 0]

NewsOff ==
    /\ news_on = FALSE /\ clock = 0 /\ cache = <<>> /\ last_fetch = 0
    /\ news_call = NoNewsCall

\* NewsService.__init__
InitNews ==
    /\ news_on = TRUE /\ clock = StartClock /\ cache = <<>> /\ last_fetch = 0
    /\ news_call = NoNewsCall

\* time passes
tick ==
    /\ news_on
    /\ \E d \in {1, cache_duration - 1} :
         /\ clock + d <= MaxClock
         /\ clock' = clock + d
    /\ news_call' = NoNewsCall
    /\ UNCHANGED <<news_on, cache, last_fetch, firstVars, otherThanNews>>

fetch_news ==
    /\ news_on
    /\ LET current_time == clock
       IN  IF CacheValid(cache, current_time, last_fetch)
           THEN /\ news_call' = [made |-> TRUE, current_time |-> current_time,
                                 response |-> [kind |-> "none", entries |-> <<>>],
                                 requests |-> 0, returned |-> cache,
                                 cache_before |-> cache, last_fetch_before |-> last_fetch]
                /\ UNCHANGED <<cache, last_fetch>>
           ELSE \E resp \in FeedResponses :
                  LET news_items == FetchedItems(resp)
                  IN  /\ cache' = news_items
                      /\ last_fetch' = current_time
                      /\ news_call' = [made |-> TRUE, current_time |-> current_time,
                                       response |-> resp, requests |-> Len(feeds),
                                       returned |-> news_items, cache_before |-> cache,
                                       last_fetch_before |-> last_fetch]
    /\ UNCHANGED <<news_on, clock, firstVars, otherThanNews>>

NextNews == tick \/ fetch_news

(***************************************************************************)
(* Properties of the scoring functions and of batch_match                  *)
(***************************************************************************)
ATSReturned == ats_pc = "done" /\ ats_out.at = "none"

\* C7: the total score ATSScorer.run returns lies between 0 and 100,
\* whatever the resume, the job description and the LLM response.
C7_ATSScoreWithin0And100 ==
    ATSReturned => ats_out.result.score10 \in 0..1000

\* the experience and format scores the claim names: the LLM's values, 70
\* and 90 when the response is not JSON or leaves the field out
ClaimedExperience ==
    IF ats_llm.kind = "json" /\ ats_llm.exp.has THEN ats_llm.exp.val ELSE 70
ClaimedFormat ==
    IF ats_llm.kind = "json" /\ ats_llm.fmt.has THEN ats_llm.fmt.val ELSE 90

\* the terms of required found in the resume skills, ignoring case
FoundIn(required) ==
    {k \in required : \E x \in ats_in.resume_skills : x.word = k.word}

\* C8: the score is 40% keyword + 30% skills + 20% experience + 10% format
\* (reported to one decimal), keyword and skills being the percentage of
\* the required terms found in the resume skills ignoring case, 100 when
\* nothing is required, and experience and format the LLM's values with
\* defaults 70 and 90. With kf/kn and sf/sn the fractions found, ten times
\* the weighted sum is N / D, and the reported tenths are within 1/2 of it.
C8_ATSWeightedSum ==
    ATSReturned =>
        LET kw  == ats_in.job_keywords
            req == ats_in.job_keywords \cup ats_in.company_tech_stack
            kn  == IF kw = {} THEN 1 ELSE Cardinality(kw)
            kf  == IF kw = {} THEN 1 ELSE Cardinality(FoundIn(kw))
            sn  == IF req = {} THEN 1 ELSE Cardinality(req)
            sf  == IF req = {} THEN 1 ELSE Cardinality(FoundIn(req))
            D   == kn * sn
            N   == 400 * kf * sn + 300 * sf * kn + (2 * ClaimedExperience + ClaimedFormat) * D
            out == ats_out.result
        IN  /\ 2 * Abs(out.score10 * D - N) <= D
            /\ out.experience_score = ClaimedExperience
            /\ out.format_score = ClaimedFormat
            /\ 2 * Abs(out.keyword_score10 * kn - 1000 * kf) <= kn
            /\ 2 * Abs(out.skills_score10 * sn - 1000 * sf) <= sn
            /\ out.keyword_score10 \in 0..1000 /\ out.skills_score10 \in 0..1000

C8_Witness ==
    /\ ATSReturned
    /\ ats_llm.kind = "json" /\ ats_llm.exp.has /\ ~ats_llm.fmt.has
    /\ Cardinality(ats_in.job_keywords) = 3
    /\ Cardinality(FoundIn(ats_in.job_keywords)) = 2
    /\ \E k \in ats_in.job_keywords : k \notin ats_in.resume_skills /\ k \in FoundIn(ats_in.job_keywords)
    /\ ats_in.company_tech_stack # {} /\ ~(ats_in.company_tech_stack \subseteq ats_in.job_keywords)

GhostReturned == ghost_pc = "done" /\ ghost_out.at = "none"

\* C9: ghost_score is within 0..100 and confidence within 0..1 for every
\* posting and LLM response; ghost_score is 0.4 * heuristic score (itself
\* within 0..100) + 0.6 * LLM score (50 when unparseable), confidence is
\* |ghost_score - 50| / 50.
C9_GhostScoreAndConfidenceInRange ==
    GhostReturned =>
        LET out == ghost_out.result
            h   == _calculate_heuristic_score(ghost_in)
            l   == IF ghost_llm.kind = "json" /\ ghost_llm.score.has
                   THEN ghost_llm.score.val ELSE 50
        IN  /\ h \in 0..100
            /\ out.ghost_score10 = 4 * h + 6 * l
            /\ 2 * Abs(out.confidence100 * 5 - Abs(out.ghost_score10 - 500)) <= 5
            /\ out.ghost_score10 \in 0..1000
            /\ out.confidence100 \in 0..100

\* the jobs whose matching succeeded with match_score >= min_score
Kept == {i \in 1..Len(bm_log) :
            bm_log[i].at = "none" /\ bm_log[i].result.match_score >= bm_min}

\* C10: batch_match returns exactly the (job, match_result) pairs of the
\* jobs whose matching succeeded with match_score >= min_score, highest
\* score first; a job whose matching raised is left out and the jobs after
\* it are still matched.
C10_BatchMatchFiltersAndSorts ==
    bm_pc = "done" =>
        /\ Len(bm_log) = Len(bm_jobs)
        /\ Len(matches) = Cardinality(Kept)
        /\ {m.index : m \in Range(matches)} = Kept
        /\ \A k \in 1..Len(matches) :
             /\ matches[k].job = bm_jobs[matches[k].index]
             /\ matches[k].match_result = bm_log[matches[k].index].result
        /\ \A k \in 1..(Len(matches) - 1) :
             matches[k].match_result.match_score >= matches[k + 1].match_result.match_score

C10_Witness ==
    /\ bm_pc = "done" /\ Len(bm_jobs) = 3 /\ Len(matches) = 2
    /\ bm_log[1].at = "run"
    /\ matches[1].index = 3 /\ matches[2].index = 2
    /\ matches[1].match_result.match_score > matches[2].match_result.match_score
    /\ matches[2].match_result.match_score = bm_min

\* C11: batch_detect returns one entry per input job, in input order, each
\* with a ghost_detection; it never raises because one detection failed:
\* the failing job gets ghost_detection = {"error": ...} and the jobs after
\* it are still processed.
C11_BatchDetectOneEntryPerJob ==
    /\ bd_pc # "raised"
    /\ Len(bd_results) = Len(bd_log)
    /\ bd_pc = "done" =>
        /\ Len(bd_results) = Len(bd_jobs)
        /\ \A i \in 1..Len(bd_jobs) :
             /\ bd_results[i].index = i
             /\ bd_results[i].job = bd_jobs[i]
             /\ bd_results[i].ghost_detection.error <=> bd_log[i].at # "none"
             /\ bd_log[i].at = "none" =>
                    bd_results[i].ghost_detection.value = bd_log[i].result

C11_Witness ==
    /\ bd_pc = "done" /\ Len(bd_jobs) = 3
    /\ bd_results[1].ghost_detection.error /\ bd_jobs[1].empty
    /\ bd_results[2].ghost_detection.error /\ ~bd_jobs[2].empty
    /\ ~bd_results[3].ghost_detection.error

InRange(x, lo, hi) == FracLeq(Frac(lo, 1), x) /\ FracLeq(x, Frac(hi, 1))

\* C12: ats_score of the MCP service is the sum (reported rounded to one
\* decimal) of skills match in 0..50, experience match in 0..30, education
\* match in 0..10 and keyword density in 0..10, hence within 0..100 for all
\* non-negative year counts.
C12_McpScoreIsBoundedSum ==
    mcp_pc = "done" =>
        LET sum == FracAdd(FracAdd(mcp_out.skills_score, mcp_out.experience_score),
                           FracAdd(Frac(mcp_out.education_score, 1),
                                   mcp_out.keyword_score))
        IN  /\ InRange(mcp_out.skills_score, 0, 50)
            /\ InRange(mcp_out.experience_score, 0, 30)
            /\ mcp_out.education_score \in 0..10
            /\ InRange(mcp_out.keyword_score, 0, 10)
            /\ mcp_out.ats_score10 = Round1(sum)
            /\ mcp_out.ats_score10 \in 0..1000
            /\ mcp_out.breakdown10.skills_match \in 0..500
            /\ mcp_out.breakdown10.experience_match \in 0..300
            /\ mcp_out.breakdown10.education_match \in 0..100
            /\ mcp_out.breakdown10.keyword_density \in 0..100

\* more years than required, and every other component at its maximum
C12_Witness ==
    /\ mcp_pc = "done"
    /\ mcp_in.experience_years > mcp_in.experience_required_years
    /\ mcp_in.experience_required_years > 0
    /\ mcp_in.required_skills # {} /\ mcp_in.keywords # {}
    /\ mcp_out.ats_score10 = 1000

\* C13: the education score is 10 when no education is required or the
\* detected resume level is at least the required level (none < bachelor <
\* master < phd), 6 when the resume has a degree below the required level,
\* and 0 whenever education is required and the resume has no recognised
\* degree.
LevelRank(l) ==
    CASE l = "bachelor" -> 1 [] l = "master" -> 2 [] l = "phd" -> 3 [] OTHER -> 0

C13_EducationScoreByLevel ==
    mcp_pc = "done" =>
        LET required == mcp_in.education_required # {}
            r == LevelRank(mcp_out.resume_level)
            q == LevelRank(mcp_out.required_level)
        IN  /\ (~required \/ r >= q) => mcp_out.education_score = 10
            /\ (required /\ r > 0 /\ r < q) => mcp_out.education_score = 6
            /\ (required /\ r = 0) => mcp_out.education_score = 0

\* C14: connect_all returns False exactly when the PostgreSQL connection
\* fails, and then attempts no other connection; when PostgreSQL connects it
\* returns True whichever optional connections fail, each of Qdrant, Neo4j
\* and Redis having been attempted, in that order.
C14_PostgresRequiredOthersOptional ==
    /\ db_ret = "False" <=> (db_pc \in {"returned", "serving", "closed"}
                             /\ db_env["postgres"] # "ok")
    /\ db_ret = "True" <=> (db_pc \in {"returned", "serving", "closed"}
                            /\ db_env["postgres"] = "ok")
    /\ db_ret = "False" => db_attempts = <<"postgres">>
    /\ db_ret = "True" => db_attempts = Stores
    /\ \A k \in 1..Len(db_attempts) : db_attempts[k] = Stores[k]

\* PostgreSQL connected, the three optional connections all failed
C14_Witness ==
    /\ db_pc = "returned" /\ db_ret = "True"
    /\ db_env["qdrant"] # "ok" /\ db_env["neo4j"] # "ok" /\ db_env["redis"] # "ok"
    /\ db_attempts = Stores
    /\ success_count = 1

\* C15: POST /resumes with a resume_id already stored is rejected with status
\* 400 "Resume ID already exists" and leaves the stored content unchanged;
\* with a new resume_id it stores the content under that id.
C15_DuplicateRejectedWith400 ==
    (api_req.op = "upload" /\ ~api_req.db_fault) =>
        IF resumes_before[api_req.resume_id] # NoRow
        THEN /\ api_resp.status = 400
             /\ api_resp.detail = "Resume ID already exists"
             /\ resumes = resumes_before
        ELSE resumes = [resumes_before EXCEPT ![api_req.resume_id] = api_req.content]

\* C16: after POST /resumes stored content C under id X, GET /resumes/X
\* returns {resume_id: X, content: C}; GET /resumes/Y for an id never stored
\* returns status 404 "Resume not found".
C16_StoreReadRoundTrip ==
    (api_req.op = "get" /\ ~api_req.db_fault) =>
        IF resumes[api_req.resume_id] # NoRow
        THEN /\ api_resp.status = 200
             /\ api_resp.resume_id = api_req.resume_id
             /\ api_resp.content = resumes[api_req.resume_id]
        ELSE /\ api_resp.status = 404
             /\ api_resp.detail = "Resume not found"

\* C17: the 'stored' count of the response of POST /jobs/scrape equals the
\* number of jobs of the batch persisted in job_postings after the final
\* commit, and every job returned with an 'id' is persisted under that id,
\* also when an insert in the middle of the batch failed and the session
\* was rolled back.
C17_StoredCountMatchesPersisted ==
    (scrape_pc = "done" /\ scrape_jobs # <<>>) =>
        /\ \A k \in 1..Len(scrape_resp.ids) :
               scrape_resp.ids[k].has => scrape_resp.ids[k].id \in job_postings
        /\ scrape_resp.stored =
               Cardinality({k \in 1..Len(scrape_resp.ids) :
                               /\ scrape_resp.ids[k].has
                               /\ scrape_resp.ids[k].id \in job_postings})

\* C18: a call of fetch_news made less than 60 seconds after a fetch that
\* produced at least one item returns the cached items, issues no HTTP
\* request and changes neither cache nor last_fetch; a call made when the
\* cache is empty or 60 seconds or more after last_fetch issues the requests
\* and replaces both cache and last_fetch, also when the fetch produced no
\* item.
C18_CacheServedForOneMinute ==
    news_call.made =>
        IF /\ news_call.cache_before # <<>>
           /\ news_call.current_time - news_call.last_fetch_before < 60
        THEN /\ news_call.requests = 0
             /\ news_call.returned = news_call.cache_before
             /\ cache = news_call.cache_before
             /\ last_fetch = news_call.last_fetch_before
        ELSE /\ news_call.requests = Len(feeds)
             /\ cache = FetchedItems(news_call.response)
             /\ news_call.returned = cache
             /\ last_fetch = news_call.current_time

\* exactly 60 seconds after a fetch that produced items, a failing fetch
\* empties the cache
C18_Witness ==
    /\ news_call.made
    /\ news_call.cache_before # <<>>
    /\ news_call.current_time - news_call.last_fetch_before = 60
    /\ news_call.response.kind = "raise"
    /\ cache = <<>> /\ last_fetch = news_call.current_time

(***************************************************************************)
(* Specifications                                                          *)
(***************************************************************************)
MoreOff == BatchDetectOff /\ McpOff /\ DbOff /\ ResumeOff /\ ScrapeOff /\ NewsOff

Init == InitWorkflow /\ ATSOff /\ GhostOff /\ BatchOff /\ MoreOff
Next == NextWorkflow
Spec == Init /\ [][Next]_vars

\* calls of ATSScorer.run on every input of the bounds
InitSpecATS == InitWorkflow /\ InitATS /\ GhostOff /\ BatchOff /\ MoreOff
SpecATS == InitSpecATS /\ [][NextATS]_vars

\* calls of GhostJobDetector.run on every input of the bounds
InitSpecGhost == InitWorkflow /\ ATSOff /\ InitGhost /\ BatchOff /\ MoreOff
SpecGhost == InitSpecGhost /\ [][NextGhost]_vars

\* calls of JobMatcher.batch_match on every input of the bounds
InitSpecBatch == InitWorkflow /\ ATSOff /\ GhostOff /\ InitBatch /\ MoreOff
SpecBatch == InitSpecBatch /\ [][NextBatch]_vars

FirstOff == InitWorkflow /\ ATSOff /\ GhostOff /\ BatchOff

\* calls of GhostJobDetector.batch_detect on every input of the bounds
InitSpecBatchDetect == FirstOff /\ InitBatchDetect /\ McpOff /\ DbOff /\ ResumeOff /\ ScrapeOff /\ NewsOff
SpecBatchDetect == InitSpecBatchDetect /\ [][NextBatchDetect]_vars

\* calls of the MCP service's calculate_ats_score
InitSpecMcpScore == FirstOff /\ BatchDetectOff /\ InitMcpScore /\ DbOff /\ ResumeOff /\ ScrapeOff /\ NewsOff
SpecMcpScore == InitSpecMcpScore /\ [][NextMcp]_vars

InitSpecMcpEducation == FirstOff /\ BatchDetectOff /\ InitMcpEducation /\ DbOff /\ ResumeOff /\ ScrapeOff /\ NewsOff
SpecMcpEducation == InitSpecMcpEducation /\ [][NextMcp]_vars

\* start-up and shutdown of the MCP server in every environment
InitSpecDb == FirstOff /\ BatchDetectOff /\ McpOff /\ InitDb /\ ResumeOff /\ ScrapeOff /\ NewsOff
SpecDb == InitSpecDb /\ [][NextDb]_vars

\* requests to the resume endpoints, in any order
InitSpecResume == FirstOff /\ BatchDetectOff /\ McpOff /\ DbOff /\ InitResume /\ ScrapeOff /\ NewsOff
SpecResume == InitSpecResume /\ [][NextResume]_vars

\* one request to POST /jobs/scrape
InitSpecScrape == FirstOff /\ BatchDetectOff /\ McpOff /\ DbOff /\ ResumeOff /\ InitScrape /\ NewsOff
SpecScrape == InitSpecScrape /\ [][NextScrape]_vars

\* calls of fetch_news as time passes
InitSpecNews == FirstOff /\ BatchDetectOff /\ McpOff /\ DbOff /\ ResumeOff /\ ScrapeOff /\ InitNews
SpecNews == InitSpecNews /\ [][NextNews]_vars
====
